---- MODULE Spec2Model ----
(***************************************************************************)
(* A model of the HTR error classifier (classify_errors.py): the           *)
(* character aligner levenshtein_align, the word aligner word_align (over  *)
(* difflib's opcodes), the classifiers, and the page loop analyze_pages.   *)
(*                                                                         *)
(* Strings are sequences of one-character strings; Python's 0-based index  *)
(* k is position k+1 of a sequence.  A dict is a function whose domain is  *)
(* the set of keys present.                                                *)
(***************************************************************************)
EXTENDS Integers, Sequences, FiniteSets, TLC

VARIABLES
    \* levenshtein_align
    ref, hyp, dp, i, j, ops, apc,
    \* word_align and classify_word_errors
    ref_words, hyp_words, word_ops, op_idx, stats, wpc,
    \* analyze_pages and save_outputs
    ref_file, hyp_file, ref_pages, hyp_pages, page_idx,
    all_stats, all_errors, all_sub_pairs, pc, returned, saved

align_vars == <<ref, hyp, dp, i, j, ops, apc>>
word_vars  == <<ref_words, hyp_words, word_ops, op_idx, stats, wpc>>
page_vars  == <<ref_file, hyp_file, ref_pages, hyp_pages, page_idx,
                all_stats, all_errors, all_sub_pairs, pc, returned, saved>>
vars == <<align_vars, word_vars, page_vars>>

-----------------------------------------------------------------------------
(* Bounds of the model. *)

\* longest string given to levenshtein_align
MaxLen == 4
\* longest space-joined token sequence given to word_align
MaxJoinedLen == 4
\* most tokens on the longer side of a WordEdit given to classify_word_errors
MaxSideWords == 2
\* most characters of the two documents together, page separators apart
MaxDocChars == 4

Letters  == {"a", "b"}
Space    == " "
Newline  == "\n"
Alphabet == Letters \cup {Space}
\* the characters str.split, str.strip and the pattern \s take as whitespace
Whitespace == {Space, Newline}

\* all strings over the set of characters cs of length at most n
Strings(cs, n) == UNION {[1..k -> cs] : k \in 0..n}

-----------------------------------------------------------------------------
(* Python's built-ins, as far as the program uses them. *)

Min2(a, b) == IF a <= b THEN a ELSE b
Min3(a, b, c) == Min2(a, Min2(b, c))

\* s[lo:hi] for 0 <= lo, hi (Python clamps hi to len(s))
Slice(s, lo, hi) == SubSeq(s, lo + 1, Min2(hi, Len(s)))

\* s[::-1]
RECURSIVE Reversed(_)
Reversed(s) == IF s = <<>> THEN <<>> ELSE Append(Reversed(Tail(s)), Head(s))

\* whether s[k] is in range (Python's negative indices count from the end)
InRange(s, k) == -Len(s) <= k /\ k < Len(s)

\* s[k] of a list, for k in range
Item(s, k) == IF k >= 0 THEN s[k + 1] ELSE s[Len(s) + k + 1]

\* s[k] of a string, for k in range: a string of one character
CharAt(s, k) == << Item(s, k) >>

\* sep.join(words)
RECURSIVE Join(_, _)
Join(sep, words) ==
    IF words = <<>> THEN <<>>
    ELSE IF Len(words) = 1 THEN words[1]
    ELSE words[1] \o sep \o Join(sep, Tail(words))

\* s.split(): the maximal runs of non-whitespace characters, in order
RECURSIVE SplitFrom(_, _)
SplitFrom(s, cur) ==
    IF s = <<>> THEN (IF cur = <<>> THEN <<>> ELSE <<cur>>)
    ELSE IF Head(s) \in Whitespace
         THEN (IF cur = <<>> THEN <<>> ELSE <<cur>>) \o SplitFrom(Tail(s), <<>>)
         ELSE SplitFrom(Tail(s), Append(cur, Head(s)))

Split(s) == SplitFrom(s, <<>>)

\* x in s, for strings: x occurs as a contiguous substring of s
Contains(s, x) ==
    \E p \in 0..(Len(s) - Len(x)) : SubSeq(s, p + 1, p + Len(x)) = x

\* d.get(k, 0)
Get(d, k) == IF k \in DOMAIN d THEN d[k] ELSE 0

\* d[k] += v on a defaultdict(int) or a Counter
Incr(d, k, v) ==
    IF k \in DOMAIN d THEN [d EXCEPT ![k] = @ + v] ELSE (k :> v) @@ d

EmptyDict == [k \in {} |-> 0]

-----------------------------------------------------------------------------
(* levenshtein_align: the table. *)

\* a plausible slip: every diagonal step costs 1
SubCostAlwaysOne(rc, hc) == 1

\* cost = 0 if ref[i-1] == hyp[j-1] else 1
SubCost(rc, hc) == IF rc = hc THEN 0 ELSE 1

\* row i >= 1 of dp from row i-1 (prev), filled left to right; cur holds
\* dp[i][0..jj-1]
RECURSIVE FillRow(_, _, _, _, _)
FillRow(r, h, ii, prev, cur) ==
    LET jj == Len(cur) IN
    IF jj > Len(h) THEN cur
    ELSE LET cost == SubCost(CharAt(r, ii - 1), CharAt(h, jj - 1))
             cell == Min3(prev[jj + 1] + 1, cur[jj] + 1, prev[jj] + cost)
         IN  FillRow(r, h, ii, prev, Append(cur, cell))

\* rows 0..ii of dp; row i is the sequence dp[i][0..m]
RECURSIVE FillRows(_, _, _)
FillRows(r, h, ii) ==
    IF ii = 0 THEN << [jj \in 1..(Len(h) + 1) |-> jj - 1] >>
    ELSE LET above == FillRows(r, h, ii - 1)
         IN  Append(above, FillRow(r, h, ii, above[ii], <<ii>>))

DpTable(r, h) == FillRows(r, h, Len(r))

\* dp[a][b] of a table t
Cell(t, a, b) == Item(Item(t, a), b)

EditOp(rc, hc, o) == [ref_char |-> rc, hyp_char |-> hc, operation |-> o]

(* levenshtein_align: the backtrace. *)

\* a plausible slip: the deletion tried before the substitution
BacktraceBranchDeleteFirst(r, h, t, a, b) ==
    IF a > 0 /\ b > 0 /\ CharAt(r, a - 1) = CharAt(h, b - 1) THEN "="
    ELSE IF a > 0 /\ Cell(t, a, b) = Cell(t, a - 1, b) + 1 THEN "D"
    ELSE IF a > 0 /\ b > 0 /\ Cell(t, a, b) = Cell(t, a - 1, b - 1) + 1 THEN "S"
    ELSE "I"

\* the branch of the if/elif chain taken at cell (a, b)
BacktraceBranch(r, h, t, a, b) ==
    IF a > 0 /\ b > 0 /\ CharAt(r, a - 1) = CharAt(h, b - 1) THEN "="
    ELSE IF a > 0 /\ b > 0 /\ Cell(t, a, b) = Cell(t, a - 1, b - 1) + 1 THEN "S"
    ELSE IF a > 0 /\ Cell(t, a, b) = Cell(t, a - 1, b) + 1 THEN "D"
    ELSE "I"

\* the EditOp appended at cell (a, b)
BacktraceEdit(r, h, t, a, b) ==
    LET o == BacktraceBranch(r, h, t, a, b) IN
    CASE o = "=" -> EditOp(CharAt(r, a - 1), CharAt(h, b - 1), "=")
      [] o = "S" -> EditOp(CharAt(r, a - 1), CharAt(h, b - 1), "S")
      [] o = "D" -> EditOp(CharAt(r, a - 1), <<>>, "D")
      [] o = "I" -> EditOp(<<>>, CharAt(h, b - 1), "I")

\* whether the iteration at cell (a, b) raises IndexError: only the else
\* branch reads a character without a guard on its index
BacktraceRaises(r, h, t, a, b) ==
    BacktraceBranch(r, h, t, a, b) = "I" /\ ~InRange(h, b - 1)

\* a plausible slip: the insertion moves up, as the deletion does
BacktraceMoveInsertUp(r, h, t, a, b) ==
    LET o == BacktraceBranch(r, h, t, a, b) IN
    CASE o = "=" -> <<a - 1, b - 1>>
      [] o = "S" -> <<a - 1, b - 1>>
      [] o = "D" -> <<a - 1, b>>
      [] o = "I" -> <<a - 1, b>>

\* the cell the backtrace moves to from (a, b)
BacktraceMove(r, h, t, a, b) ==
    LET o == BacktraceBranch(r, h, t, a, b) IN
    CASE o = "=" -> <<a - 1, b - 1>>
      [] o = "S" -> <<a - 1, b - 1>>
      [] o = "D" -> <<a - 1, b>>
      [] o = "I" -> <<a, b - 1>>

\* the while loop from cell (a, b), acc the operations appended so far
RECURSIVE BacktraceLoop(_, _, _, _, _, _)
BacktraceLoop(r, h, t, a, b, acc) ==
    IF ~(a > 0 \/ b > 0) THEN acc
    ELSE LET to == BacktraceMove(r, h, t, a, b)
         IN  BacktraceLoop(r, h, t, to[1], to[2],
                           Append(acc, BacktraceEdit(r, h, t, a, b)))

\* a plausible slip: the backtrace returned as appended, last cell first
ReturnOpsUnreversed(o) == o

\* return ops[::-1]
ReturnOps(o) == Reversed(o)

levenshtein_align(r, h) ==
    ReturnOps(BacktraceLoop(r, h, DpTable(r, h), Len(r), Len(h), <<>>))

-----------------------------------------------------------------------------
(* levenshtein_align as a machine: one step per iteration of the loop. *)

NoTable == <<>>

AlignIdle ==
    /\ ref = <<>> /\ hyp = <<>> /\ dp = NoTable
    /\ i = 0 /\ j = 0 /\ ops = <<>> /\ apc = "idle"

AlignInit ==
    /\ ref \in Strings(Letters, MaxLen)
    /\ hyp \in Strings(Letters, MaxLen)
    /\ dp = NoTable /\ i = 0 /\ j = 0 /\ ops = <<>>
    /\ apc = "table"

\* lines 58-78: build dp, start the backtrace at (n, m)
AlignBuildTable ==
    /\ apc = "table"
    /\ dp' = DpTable(ref, hyp)
    /\ i' = Len(ref) /\ j' = Len(hyp) /\ ops' = <<>>
    /\ apc' = "loop"
    /\ UNCHANGED <<ref, hyp, word_vars, page_vars>>

\* the body of the while loop at cell (i, j)
BacktraceIteration ==
    /\ IF BacktraceRaises(ref, hyp, dp, i, j)
       THEN /\ apc' = "raised" /\ UNCHANGED <<i, j, ops>>
       ELSE /\ ops' = Append(ops, BacktraceEdit(ref, hyp, dp, i, j))
            /\ i' = BacktraceMove(ref, hyp, dp, i, j)[1]
            /\ j' = BacktraceMove(ref, hyp, dp, i, j)[2]
            /\ apc' = "loop"
    /\ UNCHANGED <<ref, hyp, dp, word_vars, page_vars>>

\* lines 81-84
BacktraceMatch ==
    /\ apc = "loop" /\ (i > 0 \/ j > 0)
    /\ BacktraceBranch(ref, hyp, dp, i, j) = "="
    /\ BacktraceIteration

\* lines 85-88
BacktraceSubstitute ==
    /\ apc = "loop" /\ (i > 0 \/ j > 0)
    /\ BacktraceBranch(ref, hyp, dp, i, j) = "S"
    /\ BacktraceIteration

\* lines 89-91
BacktraceDelete ==
    /\ apc = "loop" /\ (i > 0 \/ j > 0)
    /\ BacktraceBranch(ref, hyp, dp, i, j) = "D"
    /\ BacktraceIteration

\* lines 92-94
BacktraceInsert ==
    /\ apc = "loop" /\ (i > 0 \/ j > 0)
    /\ BacktraceBranch(ref, hyp, dp, i, j) = "I"
    /\ BacktraceIteration

\* the loop ends; line 96
AlignReturn ==
    /\ apc = "loop"
    /\ ~(i > 0 \/ j > 0)
    /\ ops' = ReturnOps(ops)
    /\ apc' = "done"
    /\ UNCHANGED <<ref, hyp, dp, i, j, word_vars, page_vars>>

-----------------------------------------------------------------------------
(* difflib.SequenceMatcher(None, a, b), as word_align uses it: no junk       *)
(* predicate, and b shorter than the 200 elements at which difflib starts    *)
(* to treat popular elements as junk.                                        *)

\* the length of the common run of a and b that ends at a[ii], b[jj] and
\* starts no earlier than a[alo], b[blo] (find_longest_match's j2len)
RECURSIVE RunLength(_, _, _, _, _, _)
RunLength(a, b, alo, blo, ii, jj) ==
    IF ii < alo \/ jj < blo THEN 0
    ELSE IF Item(a, ii) # Item(b, jj) THEN 0
    ELSE 1 + RunLength(a, b, alo, blo, ii - 1, jj - 1)

\* find_longest_match's scan from (ii, jj) on, i ascending then j ascending,
\* best the <<besti, bestj, bestsize>> so far; a longer run replaces it, an
\* equally long one does not
RECURSIVE LongestFrom(_, _, _, _, _, _, _, _, _)
LongestFrom(a, b, alo, ahi, blo, bhi, ii, jj, best) ==
    IF ii >= ahi THEN best
    ELSE IF jj >= bhi THEN LongestFrom(a, b, alo, ahi, blo, bhi, ii + 1, blo, best)
    ELSE LET k == RunLength(a, b, alo, blo, ii, jj)
             nb == IF k > best[3] THEN <<ii - k + 1, jj - k + 1, k>> ELSE best
         IN  LongestFrom(a, b, alo, ahi, blo, bhi, ii, jj + 1, nb)

\* find_longest_match(alo, ahi, blo, bhi)
find_longest_match(a, b, alo, ahi, blo, bhi) ==
    LongestFrom(a, b, alo, ahi, blo, bhi, alo, blo, <<alo, blo, 0>>)

\* the matching blocks of a[alo:ahi], b[blo:bhi] in ascending order: the
\* longest match, and recursively those to its left and to its right
RECURSIVE BlocksIn(_, _, _, _, _, _)
BlocksIn(a, b, alo, ahi, blo, bhi) ==
    LET x == find_longest_match(a, b, alo, ahi, blo, bhi)
        bi == x[1]
        bj == x[2]
        k == x[3]
    IN  IF k = 0 THEN <<>>
        ELSE (IF alo < bi /\ blo < bj
              THEN BlocksIn(a, b, alo, bi, blo, bj) ELSE <<>>)
             \o <<x>>
             \o (IF bi + k < ahi /\ bj + k < bhi
                 THEN BlocksIn(a, b, bi + k, ahi, bj + k, bhi) ELSE <<>>)

\* adjacent blocks collapsed into one; cur is the block being grown
RECURSIVE Collapse(_, _)
Collapse(blocks, cur) ==
    IF blocks = <<>> THEN (IF cur[3] > 0 THEN <<cur>> ELSE <<>>)
    ELSE LET x == Head(blocks) IN
         IF cur[1] + cur[3] = x[1] /\ cur[2] + cur[3] = x[2]
         THEN Collapse(Tail(blocks), <<cur[1], cur[2], cur[3] + x[3]>>)
         ELSE (IF cur[3] > 0 THEN <<cur>> ELSE <<>>) \o Collapse(Tail(blocks), x)

\* get_matching_blocks(): ends with the sentinel (len(a), len(b), 0)
get_matching_blocks(a, b) ==
    Append(Collapse(BlocksIn(a, b, 0, Len(a), 0, Len(b)), <<0, 0, 0>>),
           <<Len(a), Len(b), 0>>)

Opcode(tag, i1, i2, j1, j2) == [tag |-> tag, i1 |-> i1, i2 |-> i2, j1 |-> j1, j2 |-> j2]

\* get_opcodes()'s loop over the matching blocks, from position (ii, jj)
RECURSIVE OpcodesFrom(_, _, _)
OpcodesFrom(blocks, ii, jj) ==
    IF blocks = <<>> THEN <<>>
    ELSE LET ai == Head(blocks)[1]
             bj == Head(blocks)[2]
             size == Head(blocks)[3]
             tag == IF ii < ai /\ jj < bj THEN "replace"
                    ELSE IF ii < ai THEN "delete"
                    ELSE IF jj < bj THEN "insert"
                    ELSE ""
         IN  (IF tag # "" THEN << Opcode(tag, ii, ai, jj, bj) >> ELSE <<>>)
             \o (IF size > 0
                 THEN << Opcode("equal", ai, ai + size, bj, bj + size) >>
                 ELSE <<>>)
             \o OpcodesFrom(Tail(blocks), ai + size, bj + size)

get_opcodes(a, b) == OpcodesFrom(get_matching_blocks(a, b), 0, 0)

-----------------------------------------------------------------------------
(* word_align *)

WordEditOp(rw, hw, o) == [ref_words |-> rw, hyp_words |-> hw, operation |-> o]

\* a plausible slip: a replace block stored without its reference side
WordOpOfReplaceAsInsert(ref_str, hyp_str, oc) ==
    LET ref_slice == Split(Slice(ref_str, oc.i1, oc.i2))
        hyp_slice == Split(Slice(hyp_str, oc.j1, oc.j2))
    IN  CASE oc.tag = "equal"   -> WordEditOp(ref_slice, hyp_slice, "=")
          [] oc.tag = "delete"  -> WordEditOp(ref_slice, <<>>, "D")
          [] oc.tag = "insert"  -> WordEditOp(<<>>, hyp_slice, "I")
          [] oc.tag = "replace" -> WordEditOp(<<>>, hyp_slice, "S")

\* the WordEditOp appended for one opcode
WordOpOf(ref_str, hyp_str, oc) ==
    LET ref_slice == Split(Slice(ref_str, oc.i1, oc.i2))
        hyp_slice == Split(Slice(hyp_str, oc.j1, oc.j2))
    IN  CASE oc.tag = "equal"   -> WordEditOp(ref_slice, hyp_slice, "=")
          [] oc.tag = "delete"  -> WordEditOp(ref_slice, <<>>, "D")
          [] oc.tag = "insert"  -> WordEditOp(<<>>, hyp_slice, "I")
          [] oc.tag = "replace" -> WordEditOp(ref_slice, hyp_slice, "S")

word_align(rw, hw) ==
    LET ref_str == Join(<<Space>>, rw)
        hyp_str == Join(<<Space>>, hw)
        ocs == get_opcodes(ref_str, hyp_str)
    IN  [n \in 1..Len(ocs) |-> WordOpOf(ref_str, hyp_str, ocs[n])]

-----------------------------------------------------------------------------
(* classify_char_errors *)

\* a plausible slip: a deletion tallied as a substitution
CharCategoryDelAsSub(o) ==
    CASE o = "S" -> "char_substitution"
      [] o = "D" -> "char_substitution"
      [] o = "I" -> "char_insertion"
      [] OTHER   -> "none"

\* the ErrorType value tallied for an operation tag; "none" for a Match
CharCategory(o) ==
    CASE o = "S" -> "char_substitution"
      [] o = "D" -> "char_deletion"
      [] o = "I" -> "char_insertion"
      [] OTHER   -> "none"

\* the loop over ops: <<stats, sub_pairs>> after the operations es
RECURSIVE CharErrorsLoop(_, _, _)
CharErrorsLoop(es, st, sp) ==
    IF es = <<>> THEN <<st, sp>>
    ELSE LET e == Head(es)
             c == CharCategory(e.operation)
         IN  CharErrorsLoop(Tail(es),
                 IF c = "none" THEN st ELSE Incr(st, c, 1),
                 IF e.operation = "S"
                 THEN Incr(sp, <<e.ref_char, e.hyp_char>>, 1) ELSE sp)

classify_char_errors(es) == CharErrorsLoop(es, EmptyDict, EmptyDict)

-----------------------------------------------------------------------------
(* levenshtein_distance, is_merge, is_split, is_abbrev_expansion *)

\* the default of max_dist
MaxDist == 2
\* the default of min_ratio, 1.5, as the fraction MinRatioNum / MinRatioDen
MinRatioNum == 3
MinRatioDen == 2
\* "Ignore very short tokens": the least length classified
MinTokenLen == 3

\* current_row of the inner loop: cur holds the entries so far, c1 = s1[ii]
RECURSIVE DistanceRow(_, _, _, _)
DistanceRow(c1, s2, previous_row, cur) ==
    LET jj == Len(cur) - 1 IN
    IF jj >= Len(s2) THEN cur
    ELSE LET insertions == previous_row[jj + 2] + 1
             deletions == cur[jj + 1] + 1
             substitutions == previous_row[jj + 1]
                              + (IF c1 # Item(s2, jj) THEN 1 ELSE 0)
         IN  DistanceRow(c1, s2, previous_row,
                         Append(cur, Min3(insertions, deletions, substitutions)))

\* the outer loop from its state st = <<i, previous_row>>: the last row
RECURSIVE DistanceRows(_, _, _)
DistanceRows(s1, s2, st) ==
    IF st[1] >= Len(s1) THEN st[2]
    ELSE DistanceRows(s1, s2,
            << st[1] + 1,
               DistanceRow(Item(s1, st[1]), s2, st[2], <<st[1] + 1>>) >>)

RECURSIVE levenshtein_distance(_, _)
levenshtein_distance(s1, s2) ==
    IF Len(s1) < Len(s2) THEN levenshtein_distance(s2, s1)
    ELSE IF Len(s2) = 0 THEN Len(s1)
    ELSE LET last == DistanceRows(s1, s2,
                         <<0, [jj \in 1..(Len(s2) + 1) |-> jj - 1]>>)
         IN  last[Len(last)]

\* a plausible slip: the distance to the merged reference is not tested
is_merge_any_distance(rw, hw) ==
    IF Len(rw) < 2 \/ Len(hw) # 1 THEN FALSE
    ELSE TRUE

is_merge(rw, hw) ==
    IF Len(rw) < 2 \/ Len(hw) # 1 THEN FALSE
    ELSE levenshtein_distance(Join(<<>>, rw), hw[1]) <= MaxDist

is_split(rw, hw) ==
    IF Len(rw) # 1 \/ Len(hw) < 2 THEN FALSE
    ELSE levenshtein_distance(rw[1], Join(<<>>, hw)) <= MaxDist

\* a plausible slip: the shorter word sought anywhere in the longer one
is_abbrev_expansion_anywhere(ref_word, hyp_word) ==
    IF Len(ref_word) = 0 \/ Len(hyp_word) = 0 THEN FALSE
    ELSE IF /\ MinRatioDen * Len(hyp_word) > MinRatioNum * Len(ref_word)
            /\ Contains(hyp_word, ref_word)
         THEN TRUE
    ELSE IF /\ MinRatioDen * Len(ref_word) > MinRatioNum * Len(hyp_word)
            /\ Contains(ref_word, hyp_word)
         THEN TRUE
    ELSE FALSE

is_abbrev_expansion(ref_word, hyp_word) ==
    IF Len(ref_word) = 0 \/ Len(hyp_word) = 0 THEN FALSE
    ELSE IF /\ MinRatioDen * Len(hyp_word) > MinRatioNum * Len(ref_word)
            /\ Contains(Slice(hyp_word, 0, Len(ref_word) + 2), ref_word)
         THEN TRUE
    ELSE IF /\ MinRatioDen * Len(ref_word) > MinRatioNum * Len(hyp_word)
            /\ Contains(Slice(ref_word, 0, Len(hyp_word) + 2), hyp_word)
         THEN TRUE
    ELSE FALSE

-----------------------------------------------------------------------------
(* classify_word_errors *)

\* the branch of the loop body taken for op
WordBranch(op) ==
    IF op.operation = "=" THEN "continue"
    ELSE IF is_merge(op.ref_words, op.hyp_words) THEN "merge"
    ELSE IF is_split(op.ref_words, op.hyp_words) THEN "split"
    ELSE IF Len(op.ref_words) = 1 /\ Len(op.hyp_words) = 1 THEN "one_to_one"
    ELSE IF op.operation \in {"D", "I"} THEN "residual"
    ELSE "uncounted"

\* str.lower() of an operation tag
Lower(o) == CASE o = "D" -> "d" [] o = "I" -> "i" [] o = "S" -> "s" [] OTHER -> o

\* f"word_{op.operation.lower()}"
ResidualKey(o) == CASE Lower(o) = "d" -> "word_d" [] Lower(o) = "i" -> "word_i"

\* a plausible slip: short tokens are not ignored
WordCategoryShortCounted(op) ==
    LET b == WordBranch(op) IN
    CASE b = "merge" -> "word_merge"
      [] b = "split" -> "word_split"
      [] b = "one_to_one" ->
            IF is_abbrev_expansion(op.ref_words[1], op.hyp_words[1])
            THEN "abbrev_expansion"
            ELSE "lexical_substitution"
      [] b = "residual" -> ResidualKey(op.operation)
      [] OTHER -> "none"

\* the key of stats incremented for op; "none" when no counter is
WordCategory(op) ==
    LET b == WordBranch(op) IN
    CASE b = "merge" -> "word_merge"
      [] b = "split" -> "word_split"
      [] b = "one_to_one" ->
            IF Len(op.ref_words[1]) >= MinTokenLen /\ Len(op.hyp_words[1]) >= MinTokenLen
            THEN IF is_abbrev_expansion(op.ref_words[1], op.hyp_words[1])
                 THEN "abbrev_expansion"
                 ELSE "lexical_substitution"
            ELSE "none"
      [] b = "residual" -> ResidualKey(op.operation)
      [] OTHER -> "none"

\* stats after one iteration of the loop
ClassifyWordOp(st, op) ==
    LET key == WordCategory(op)
    IN  IF key = "none" THEN st ELSE Incr(st, key, 1)

\* stats after the loop over the blocks wo, from stats st
RECURSIVE WordErrorsLoop(_, _)
WordErrorsLoop(wo, st) ==
    IF wo = <<>> THEN st ELSE WordErrorsLoop(Tail(wo), ClassifyWordOp(st, Head(wo)))

\* the stats classify_word_errors returns (its examples are not modelled:
\* analyze_pages discards them)
classify_word_errors(wo) == WordErrorsLoop(wo, EmptyDict)

-----------------------------------------------------------------------------
(* word_align and classify_word_errors as a machine: one step per block. *)

\* the token sequences whose space-joined string has at most MaxJoinedLen
\* characters: tokens are non-empty and free of whitespace
TokenSeqs == {Split(str) : str \in Strings(Alphabet, MaxJoinedLen)}

\* tokens for blocks given to classify_word_errors directly
Vocabulary == {
    <<"d", "o">>, <<"m", "u">>, <<"d", "o", "m", "u">>,
    <<"d", "o", "m">>, <<"k", "u", "c", "a">>,
    <<"k", "r", "a", "l", "j">>,
    <<"k", "r", "a", "l", "j", "e", "v", "s", "t", "v", "o">>,
    <<"r", "a", "l", "j">>, <<"s", "t", "v", "o">> }

Tags == {"=", "S", "D", "I"}

WordAlignInit ==
    /\ ref_words \in TokenSeqs
    /\ hyp_words \in TokenSeqs
    /\ word_ops = <<>> /\ op_idx = 0 /\ stats = EmptyDict
    /\ wpc = "align"

\* the argument is one block under any operation tag, with at most
\* MaxSideWords tokens of the vocabulary on one side and at most one on the
\* other (a replace opcode's two spans share no character, so at most one of
\* them holds a space), or it is the blocks word_align returns
ClassifyInit ==
    /\ ref_words = <<>> /\ hyp_words = <<>>
    /\ \/ \E nr \in 0..MaxSideWords, nh \in 0..MaxSideWords :
             /\ nr <= 1 \/ nh <= 1
             /\ \E rw \in [1..nr -> Vocabulary], hw \in [1..nh -> Vocabulary], o \in Tags :
                   word_ops = << WordEditOp(rw, hw, o) >>
       \/ \E rw \in TokenSeqs, hw \in TokenSeqs :
             word_ops = word_align(rw, hw)
    /\ op_idx = 0 /\ stats = EmptyDict
    /\ wpc = "classify"

\* word_ops = word_align(ref_words, hyp_words), then classify_word_errors
\* is entered (lines 272-273, 196-197)
WordAlignCall ==
    /\ wpc = "align"
    /\ word_ops' = word_align(ref_words, hyp_words)
    /\ op_idx' = 0 /\ stats' = EmptyDict
    /\ wpc' = "classify"
    /\ UNCHANGED <<ref_words, hyp_words, align_vars, page_vars>>

\* the body of the for loop for the block word_ops[op_idx]
ClassifyIteration ==
    /\ stats' = ClassifyWordOp(stats, word_ops[op_idx + 1])
    /\ op_idx' = op_idx + 1
    /\ UNCHANGED <<ref_words, hyp_words, word_ops, wpc, align_vars, page_vars>>

\* the block the loop is at
CurrentOp == word_ops[op_idx + 1]

OneToOne(op) == Len(op.ref_words) = 1 /\ Len(op.hyp_words) = 1

\* lines 200-201
ClassifyEqual ==
    /\ wpc = "classify" /\ op_idx < Len(word_ops)
    /\ CurrentOp.operation = "="
    /\ ClassifyIteration

\* lines 206-208
ClassifyMerge ==
    /\ wpc = "classify" /\ op_idx < Len(word_ops)
    /\ CurrentOp.operation # "="
    /\ is_merge(CurrentOp.ref_words, CurrentOp.hyp_words)
    /\ ClassifyIteration

\* lines 209-211
ClassifySplit ==
    /\ wpc = "classify" /\ op_idx < Len(word_ops)
    /\ CurrentOp.operation # "="
    /\ is_split(CurrentOp.ref_words, CurrentOp.hyp_words)
    /\ ~is_merge(CurrentOp.ref_words, CurrentOp.hyp_words)
    /\ ClassifyIteration

\* lines 212-220
ClassifyOneToOne ==
    /\ wpc = "classify" /\ op_idx < Len(word_ops)
    /\ CurrentOp.operation # "="
    /\ OneToOne(CurrentOp)
    /\ ~is_merge(CurrentOp.ref_words, CurrentOp.hyp_words)
    /\ ~is_split(CurrentOp.ref_words, CurrentOp.hyp_words)
    /\ ClassifyIteration

\* lines 221-222
ClassifyResidual ==
    /\ wpc = "classify" /\ op_idx < Len(word_ops)
    /\ CurrentOp.operation \in {"D", "I"}
    /\ ~OneToOne(CurrentOp)
    /\ ~is_merge(CurrentOp.ref_words, CurrentOp.hyp_words)
    /\ ~is_split(CurrentOp.ref_words, CurrentOp.hyp_words)
    /\ ClassifyIteration

\* no branch of the chain is taken: the chain has no else
ClassifyUncounted ==
    /\ wpc = "classify" /\ op_idx < Len(word_ops)
    /\ CurrentOp.operation \notin {"=", "D", "I"}
    /\ ~OneToOne(CurrentOp)
    /\ ~is_merge(CurrentOp.ref_words, CurrentOp.hyp_words)
    /\ ~is_split(CurrentOp.ref_words, CurrentOp.hyp_words)
    /\ ClassifyIteration

\* line 224
ClassifyReturn ==
    /\ wpc = "classify" /\ op_idx = Len(word_ops)
    /\ wpc' = "done"
    /\ UNCHANGED <<ref_words, hyp_words, word_ops, op_idx, stats,
                   align_vars, page_vars>>

-----------------------------------------------------------------------------
(* parse_pages *)

Digits == {"1"}
Dot    == "."

\* s.strip()
RECURSIVE LStrip(_)
LStrip(s) ==
    IF s # <<>> /\ Head(s) \in Whitespace THEN LStrip(Tail(s)) ELSE s

Strip(s) == Reversed(LStrip(Reversed(LStrip(s))))

\* the end of the longest run of characters of cs in s from index q
RECURSIVE RunEnd(_, _, _)
RunEnd(s, cs, q) ==
    IF q < Len(s) /\ Item(s, q) \in cs THEN RunEnd(s, cs, q + 1) ELSE q

\* the end of a match of \s*\n at index q, -1 if there is none: \s* is
\* greedy, so the match ends after the last newline of the whitespace run
EndOfBlank(s, q) ==
    LET nls == {k \in q..(RunEnd(s, Whitespace, q) - 1) : Item(s, k) = Newline}
    IN  IF nls = {} THEN -1
        ELSE 1 + CHOOSE k \in nls : \A l \in nls : l <= k

\* the end of a match of \n\s*\n at index p, -1 if there is none
MatchBlankLine(s, p) ==
    IF Item(s, p) = Newline THEN EndOfBlank(s, p + 1) ELSE -1

\* the end of a match of \n\d+\.\s*\n at index p, -1 if there is none
MatchNumbered(s, p) ==
    LET d == RunEnd(s, Digits, p + 1)
    IN  IF Item(s, p) = Newline /\ d > p + 1 /\ d < Len(s) /\ Item(s, d) = Dot
        THEN EndOfBlank(s, d + 1)
        ELSE -1

\* the end of a match of the pattern at index p, the first alternative first
MatchAt(s, p) ==
    IF MatchBlankLine(s, p) >= 0 THEN MatchBlankLine(s, p)
    ELSE MatchNumbered(s, p)

\* re.split from index p, the current piece starting at index start
RECURSIVE ReSplit(_, _, _)
ReSplit(s, p, start) ==
    IF p >= Len(s) THEN << Slice(s, start, Len(s)) >>
    ELSE IF MatchAt(s, p) >= 0
         THEN << Slice(s, start, p) >> \o ReSplit(s, MatchAt(s, p), MatchAt(s, p))
         ELSE ReSplit(s, p + 1, start)

NonEmptyPage(pg) == pg # <<>>

parse_pages(text) ==
    LET pages == ReSplit(Strip(text), 0, 0)
    IN  SelectSeq([k \in 1..Len(pages) |-> Strip(pages[k])], NonEmptyPage)

-----------------------------------------------------------------------------
(* analyze_pages and save_outputs *)

\* open() and read() of a path: the file is read, does not exist
\* (FileNotFoundError), or exists and cannot be read (another OSError such
\* as PermissionError or IsADirectoryError, or UnicodeDecodeError)
Statuses == {"ok", "missing", "unreadable"}

File(status, text) ==
    [status |-> status, text |-> IF status = "ok" THEN text ELSE <<>>]

\* the with-blocks open the reference first: the outcome of the try block
ReadOutcome(rf, hf) ==
    IF rf.status # "ok" THEN rf.status
    ELSE hf.status

EmptyResult == << EmptyDict, <<>>, EmptyDict >>

\* for k, v in e.items(): d[k] += v, and Counter.update(e)
AddAll(d, e) ==
    [k \in DOMAIN d \cup DOMAIN e |-> Get(d, k) + Get(e, k)]

min_pages(rp, hp) == Min2(Len(rp), Len(hp))

\* a plausible slip: every reference page compared with the first page
PageAtFirst(pages, idx) == Item(pages, 0)

\* pages[page_idx]
PageAt(pages, idx) == Item(pages, idx)

error_row(idx, op) ==
    [page        |-> idx + 1,
     ref_context |-> Join(<<Space>>, op.ref_words),
     hyp_context |-> Join(<<Space>>, op.hyp_words),
     error_type  |-> op.operation]

NonEqual(op) == op.operation # "="

\* a plausible slip: the rows of a page collected last block first
page_errors_reversed(idx, wo) ==
    LET errs == Reversed(SelectSeq(wo, NonEqual))
    IN  [n \in 1..Len(errs) |-> error_row(idx, errs[n])]

\* page_errors: a row for each block that is not '=', in block order
page_errors(idx, wo) ==
    LET errs == SelectSeq(wo, NonEqual)
    IN  [n \in 1..Len(errs) |-> error_row(idx, errs[n])]

\* the page separators of the documents: a blank line, a numbered section
Separators == { <<Newline, Newline>>, <<Newline, "1", Dot, Newline>> }

\* the text with the characters chars and the separator sep after each
\* position of cuts
RECURSIVE TextFrom(_, _, _, _)
TextFrom(chars, cuts, sep, k) ==
    IF k > Len(chars) THEN <<>>
    ELSE << chars[k] >> \o (IF k \in cuts THEN sep ELSE <<>>)
         \o TextFrom(chars, cuts, sep, k + 1)

\* main is started on two paths; either file is read, missing or unreadable
AnalyzeInit ==
    /\ \E nr \in 0..MaxDocChars, nh \in 0..MaxDocChars :
          /\ nr + nh <= MaxDocChars
          /\ \E rc \in [1..nr -> Alphabet], hc \in [1..nh -> Alphabet],
                rcuts \in SUBSET (1..(nr - 1)), hcuts \in SUBSET (1..(nh - 1)),
                rsep \in Separators, hsep \in Separators,
                rstat \in Statuses, hstat \in Statuses :
                /\ ref_file = File(rstat, TextFrom(rc, rcuts, rsep, 1))
                /\ hyp_file = File(hstat, TextFrom(hc, hcuts, hsep, 1))
    /\ ref_pages = <<>> /\ hyp_pages = <<>> /\ page_idx = 0
    /\ all_stats = EmptyDict /\ all_errors = <<>> /\ all_sub_pairs = EmptyDict
    /\ pc = "start" /\ returned = <<>> /\ saved = <<>>

\* lines 236-244: a file is missing, the except clause returns {}, [], {}
AnalyzeFileNotFound ==
    /\ pc = "start"
    /\ ReadOutcome(ref_file, hyp_file) = "missing"
    /\ returned' = EmptyResult
    /\ pc' = "returned"
    /\ UNCHANGED <<ref_file, hyp_file, ref_pages, hyp_pages, page_idx,
                   all_stats, all_errors, all_sub_pairs, saved,
                   align_vars, word_vars>>

\* lines 236-241: the exception raised is not a FileNotFoundError, no
\* except clause matches and it leaves analyze_pages and main
AnalyzeRaises ==
    /\ pc = "start"
    /\ ReadOutcome(ref_file, hyp_file) = "unreadable"
    /\ pc' = "raised"
    /\ UNCHANGED <<ref_file, hyp_file, ref_pages, hyp_pages, page_idx,
                   all_stats, all_errors, all_sub_pairs, returned, saved,
                   align_vars, word_vars>>

\* lines 246-255: both files are read
AnalyzeParse ==
    /\ pc = "start"
    /\ ReadOutcome(ref_file, hyp_file) = "ok"
    /\ ref_pages' = parse_pages(ref_file.text)
    /\ hyp_pages' = parse_pages(hyp_file.text)
    /\ all_stats' = EmptyDict /\ all_errors' = <<>> /\ all_sub_pairs' = EmptyDict
    /\ page_idx' = 0
    /\ pc' = "loop"
    /\ UNCHANGED <<ref_file, hyp_file, returned, saved, align_vars, word_vars>>

\* lines 257-290: one iteration of the page loop
ProcessPage ==
    /\ pc = "loop"
    /\ page_idx < min_pages(ref_pages, hyp_pages)
    /\ LET ref_page   == PageAt(ref_pages, page_idx)
           hyp_page   == PageAt(hyp_pages, page_idx)
           char_ops   == levenshtein_align(ref_page, hyp_page)
           char_res   == classify_char_errors(char_ops)
           wo         == word_align(Split(ref_page), Split(hyp_page))
           word_stats == classify_word_errors(wo)
       IN  /\ all_stats' = AddAll(AddAll(all_stats, char_res[1]), word_stats)
           /\ all_sub_pairs' = AddAll(all_sub_pairs, char_res[2])
           /\ all_errors' = all_errors \o page_errors(page_idx, wo)
    /\ page_idx' = page_idx + 1
    /\ UNCHANGED <<ref_file, hyp_file, ref_pages, hyp_pages, pc, returned,
                   saved, align_vars, word_vars>>

\* line 292: the loop is over
AnalyzeReturn ==
    /\ pc = "loop"
    /\ ~(page_idx < min_pages(ref_pages, hyp_pages))
    /\ returned' = << all_stats, all_errors, all_sub_pairs >>
    /\ pc' = "returned"
    /\ UNCHANGED <<ref_file, hyp_file, ref_pages, hyp_pages, page_idx,
                   all_stats, all_errors, all_sub_pairs, saved,
                   align_vars, word_vars>>

\* save_outputs on what analyze_pages returned (lines 340-342, 295-328): the
\* statistics file, the error rows (written only if there are any) and the
\* substitution table, its rows as a mapping
SaveOutputs ==
    /\ pc = "returned"
    /\ saved' =
          [error_counts    |-> returned[1],
           total_chars_ref |-> Get(returned[1], "char_substitution")
                               + Get(returned[1], "char_deletion"),
           total_chars_hyp |-> Get(returned[1], "char_substitution")
                               + Get(returned[1], "char_insertion"),
           errors_written  |-> returned[2] # <<>>,
           errors_rows     |-> returned[2],
           char_subs       |-> returned[3]]
    /\ pc' = "saved"
    /\ UNCHANGED <<ref_file, hyp_file, ref_pages, hyp_pages, page_idx,
                   all_stats, all_errors, all_sub_pairs, returned,
                   align_vars, word_vars>>

-----------------------------------------------------------------------------
(* Specifications. *)

WordIdle ==
    /\ ref_words = <<>> /\ hyp_words = <<>> /\ word_ops = <<>>
    /\ op_idx = 0 /\ stats = EmptyDict /\ wpc = "idle"

PageIdle ==
    /\ ref_file = "idle" /\ hyp_file = "idle"
    /\ ref_pages = <<>> /\ hyp_pages = <<>> /\ page_idx = 0
    /\ all_stats = EmptyDict /\ all_errors = <<>> /\ all_sub_pairs = EmptyDict
    /\ pc = "idle" /\ returned = <<>> /\ saved = <<>>

\* levenshtein_align on every pair of strings within the bounds
InitAlign == AlignInit /\ WordIdle /\ PageIdle
NextAlign ==
    \/ AlignBuildTable
    \/ BacktraceMatch
    \/ BacktraceSubstitute
    \/ BacktraceDelete
    \/ BacktraceInsert
    \/ AlignReturn
SpecAlign == InitAlign /\ [][NextAlign]_vars

\* the backtrace runs to completion once started: a sequential loop with no
\* suspension point takes its next step whenever it has one
BacktraceStep ==
    \/ BacktraceMatch
    \/ BacktraceSubstitute
    \/ BacktraceDelete
    \/ BacktraceInsert
    \/ AlignReturn
SpecAlignFair == SpecAlign /\ WF_vars(BacktraceStep)

\* word_align, then classify_word_errors, on every pair of token sequences
\* within the bounds
InitWordAlign == AlignIdle /\ WordAlignInit /\ PageIdle
NextWordAlign ==
    \/ WordAlignCall
    \/ ClassifyEqual
    \/ ClassifyMerge
    \/ ClassifySplit
    \/ ClassifyOneToOne
    \/ ClassifyResidual
    \/ ClassifyUncounted
    \/ ClassifyReturn
SpecWordAlign == InitWordAlign /\ [][NextWordAlign]_vars

\* classify_word_errors on every single block within the bounds and on every
\* block sequence word_align produces within the bounds
InitClassify == AlignIdle /\ ClassifyInit /\ PageIdle
NextClassify ==
    \/ ClassifyEqual
    \/ ClassifyMerge
    \/ ClassifySplit
    \/ ClassifyOneToOne
    \/ ClassifyResidual
    \/ ClassifyUncounted
    \/ ClassifyReturn
SpecClassify == InitClassify /\ [][NextClassify]_vars

\* main on every pair of files within the bounds
Init == AlignIdle /\ WordIdle /\ AnalyzeInit
Next ==
    \/ AnalyzeFileNotFound
    \/ AnalyzeRaises
    \/ AnalyzeParse
    \/ ProcessPage
    \/ AnalyzeReturn
    \/ SaveOutputs
Spec == Init /\ [][Next]_vars

-----------------------------------------------------------------------------
(* Claims. *)

\* whether t is within k unit-cost edits (insert, delete, substitute) of s
RECURSIVE WithinEdits(_, _, _)
WithinEdits(s, t, k) ==
    IF s = <<>> THEN Len(t) <= k
    ELSE IF t = <<>> THEN Len(s) <= k
    ELSE IF Head(s) = Head(t) THEN WithinEdits(Tail(s), Tail(t), k)
    ELSE /\ k > 0
         /\ \/ WithinEdits(Tail(s), Tail(t), k - 1)
            \/ WithinEdits(Tail(s), t, k - 1)
            \/ WithinEdits(s, Tail(t), k - 1)

\* the unit-cost Levenshtein edit distance between s and t
EditDistance(s, t) ==
    CHOOSE k \in 0..(Len(s) + Len(t)) :
        /\ WithinEdits(s, t, k)
        /\ \A l \in 0..(k - 1) : ~WithinEdits(s, t, l)

\* the number of operations of the sequence es whose tag is in tags
CountOps(es, tags) == Cardinality({n \in 1..Len(es) : es[n].operation \in tags})

\* the concatenation of the strings of a sequence
RECURSIVE Concat(_)
Concat(ss) == IF ss = <<>> THEN <<>> ELSE Head(ss) \o Concat(Tail(ss))

\* C1: when levenshtein_align(ref, hyp) has returned, the number of its
\* non-Match operations ('S', 'D', 'I') is the unit-cost Levenshtein edit
\* distance between ref and hyp.
C1_NonMatchCountIsDistance ==
    apc = "done" => CountOps(ops, {"S", "D", "I"}) = EditDistance(ref, hyp)

\* a returned alignment with matches and at least two edits
C1_Witness ==
    /\ apc = "done"
    /\ CountOps(ops, {"="}) >= 1
    /\ CountOps(ops, {"S", "D", "I"}) >= 2
    /\ CountOps(ops, {"S", "D", "I"}) = EditDistance(ref, hyp)

\* C2: when levenshtein_align(ref, hyp) has returned, the ref_char fields of
\* its operations, concatenated in output order (absent ones are empty),
\* spell ref, and the hyp_char fields spell hyp.
C2_CharsReconstructInputs ==
    apc = "done" =>
        /\ Concat([n \in 1..Len(ops) |-> ops[n].ref_char]) = ref
        /\ Concat([n \in 1..Len(ops) |-> ops[n].hyp_char]) = hyp

\* a returned alignment of two different non-palindromes, with an absent
\* ref_char and an absent hyp_char
C2_Witness ==
    /\ apc = "done"
    /\ ref # Reversed(ref) /\ hyp # Reversed(hyp) /\ ref # hyp
    /\ \E n \in 1..Len(ops) : ops[n].operation = "D" /\ ops[n].hyp_char = <<>>
    /\ \E n \in 1..Len(ops) : ops[n].operation = "I" /\ ops[n].ref_char = <<>>
    /\ Concat([n \in 1..Len(ops) |-> ops[n].ref_char]) = ref
    /\ Concat([n \in 1..Len(ops) |-> ops[n].hyp_char]) = hyp

\* the ref_words (side = "ref_words") or hyp_words of the blocks wo, in order
BlockWords(wo, side) == Concat([n \in 1..Len(wo) |-> wo[n][side]])

\* C3 as claimed: once word_align has returned, the ref_words of its blocks,
\* concatenated in output order, are the input ref_words, and the hyp_words
\* of its blocks are the input hyp_words.
C3_BlocksPartitionTokens ==
    wpc # "align" =>
        /\ BlockWords(word_ops, "ref_words") = ref_words
        /\ BlockWords(word_ops, "hyp_words") = hyp_words

\* C3 as amended: once word_align has returned, the characters of the
\* blocks' ref_words, in output order, spell the separator-free
\* concatenation of the input ref_words, and likewise for hyp_words (a
\* block boundary may fall inside a token, so the tokens themselves need
\* not be those of the input).
C3_BlocksPartitionCharacters ==
    wpc # "align" =>
        /\ Concat(BlockWords(word_ops, "ref_words")) = Concat(ref_words)
        /\ Concat(BlockWords(word_ops, "hyp_words")) = Concat(hyp_words)

\* word_align has returned blocks of which one boundary falls inside a
\* token of the reference, one block being a replace block
C3_Witness ==
    /\ wpc # "align"
    /\ BlockWords(word_ops, "ref_words") # ref_words
    /\ \E n \in 1..Len(word_ops) :
          /\ word_ops[n].operation = "S"
          /\ word_ops[n].ref_words # <<>>
    /\ Concat(BlockWords(word_ops, "ref_words")) = Concat(ref_words)
    /\ Concat(BlockWords(word_ops, "hyp_words")) = Concat(hyp_words)

\* C4: once word_align has returned, none of its blocks has both ref_words
\* and hyp_words empty.
C4_NoBlockEmptyOnBothSides ==
    wpc # "align" =>
        \A n \in 1..Len(word_ops) :
            ~(word_ops[n].ref_words = <<>> /\ word_ops[n].hyp_words = <<>>)

\* the conditions of the claims C5 and C6, stated without the program's
\* own helpers
MergeShape(op) ==
    /\ Len(op.ref_words) >= 2 /\ Len(op.hyp_words) = 1
    /\ WithinEdits(Concat(op.ref_words), op.hyp_words[1], 2)

SplitShape(op) ==
    /\ Len(op.ref_words) = 1 /\ Len(op.hyp_words) >= 2
    /\ WithinEdits(op.ref_words[1], Concat(op.hyp_words), 2)

\* short occurs in long starting at one of its first three positions, that
\* is, within the first Len(short) + 2 characters of long
InPrefixWindow(short, long) ==
    \E p \in 0..2 :
        /\ p + Len(short) <= Len(long)
        /\ \A n \in 1..Len(short) : long[p + n] = short[n]

AbbrevShape(rword, hword) ==
    \/ 2 * Len(hword) > 3 * Len(rword) /\ InPrefixWindow(rword, hword)
    \/ 2 * Len(rword) > 3 * Len(hword) /\ InPrefixWindow(hword, rword)

\* stats after exactly the counter key was incremented, or stats unchanged
\* when key is "none"
Bumped(st, key) ==
    IF key = "none" THEN st
    ELSE [k \in DOMAIN st \cup {key} |-> Get(st, k) + (IF k = key THEN 1 ELSE 0)]

\* the loop of classify_word_errors has just processed a non-equal block
NonEqualStep ==
    /\ op_idx' = op_idx + 1
    /\ word_ops[op_idx'].operation # "="

Do == <<"d", "o">>
Mu == <<"m", "u">>
Domu == <<"d", "o", "m", "u">>
Dom == <<"d", "o", "m">>
Kuca == <<"k", "u", "c", "a">>
Kralj == <<"k", "r", "a", "l", "j">>
Kraljevstvo == <<"k", "r", "a", "l", "j", "e", "v", "s", "t", "v", "o">>

\* C5: for every non-equal block the loop processes, word_merge is
\* incremented exactly when the block has at least two ref_words, one
\* hyp_word and the separator-free concatenation of the ref_words is within
\* 2 edits of it, and then no other counter changes; word_split is
\* incremented exactly when it has one ref_word, at least two hyp_words and
\* the ref_word is within 2 edits of their concatenation, and then no other
\* counter changes.
C5_MergeSplitExactly ==
    [][NonEqualStep =>
         LET op == word_ops[op_idx'] IN
         /\ MergeShape(op) => stats' = Bumped(stats, "word_merge")
         /\ SplitShape(op) => stats' = Bumped(stats, "word_split")
         /\ ~MergeShape(op) => Get(stats', "word_merge") = Get(stats, "word_merge")
         /\ ~SplitShape(op) => Get(stats', "word_split") = Get(stats, "word_split")
      ]_vars

\* the block ["do","mu"] / ["domu"] has been counted as a word_merge
C5_Witness ==
    /\ wpc = "classify" /\ op_idx = 1
    /\ word_ops[1].ref_words = <<Do, Mu>>
    /\ word_ops[1].hyp_words = <<Domu>>
    /\ word_ops[1].operation = "S"
    /\ stats = ("word_merge" :> 1)

\* C6: for every non-equal block with one token on each side, both of at
\* least 3 characters, exactly abbrev_expansion is incremented when one
\* token is more than 1.5 times as long as the other and the shorter one
\* occurs within the first (its length + 2) characters of the longer one,
\* and exactly lexical_substitution is incremented otherwise.
C6_AbbrevOrLexical ==
    [][NonEqualStep =>
         LET op == word_ops[op_idx'] IN
         (/\ Len(op.ref_words) = 1 /\ Len(op.hyp_words) = 1
          /\ Len(op.ref_words[1]) >= 3 /\ Len(op.hyp_words[1]) >= 3)
         => stats' = Bumped(stats,
                        IF AbbrevShape(op.ref_words[1], op.hyp_words[1])
                        THEN "abbrev_expansion" ELSE "lexical_substitution")
      ]_vars

\* kralj / kraljevstvo has been counted as an abbrev_expansion
C6_Witness ==
    /\ wpc = "classify" /\ op_idx = 1
    /\ word_ops[1].ref_words = <<Kralj>>
    /\ word_ops[1].hyp_words = <<Kraljevstvo>>
    /\ word_ops[1].operation = "S"
    /\ stats = ("abbrev_expansion" :> 1)

\* the sum of the counts of a dict
RECURSIVE SumDict(_)
SumDict(d) ==
    IF DOMAIN d = {} THEN 0
    ELSE LET k == CHOOSE x \in DOMAIN d : TRUE
         IN  d[k] + SumDict([x \in DOMAIN d \ {k} |-> d[x]])

WordCategories ==
    {"word_merge", "word_split", "lexical_substitution", "abbrev_expansion",
     "word_d", "word_i"}

\* C7 as claimed: when classify_word_errors returns, the sum of its counts
\* is the number of non-equal blocks it was given.
C7_EveryBlockCounted ==
    wpc = "done" => SumDict(stats) = CountOps(word_ops, {"S", "D", "I"})

\* the non-equal blocks for which a counter is incremented
IsCounted(op) ==
    /\ op.operation # "="
    /\ \/ MergeShape(op)
       \/ SplitShape(op)
       \/ /\ Len(op.ref_words) = 1 /\ Len(op.hyp_words) = 1
          /\ Len(op.ref_words[1]) >= 3 /\ Len(op.hyp_words[1]) >= 3
       \/ /\ ~(Len(op.ref_words) = 1 /\ Len(op.hyp_words) = 1)
          /\ op.operation \in {"D", "I"}

\* C7 as amended: every non-equal block increments at most one category
\* counter: exactly one when the block is a merge, a split, a one-to-one
\* block whose two tokens have at least 3 characters, or a block tagged 'D'
\* or 'I' that is none of these and not one-to-one; none when it is a
\* one-to-one block with a token shorter than 3 characters or a block tagged
\* 'S' that is neither merge, split nor one-to-one.  So the sum of the
\* returned counts is the number of blocks of the first kind, which is at
\* most the number of non-equal blocks.
C7_CountedBlocksOnly ==
    wpc = "done" =>
        /\ DOMAIN stats \subseteq WordCategories
        /\ SumDict(stats) =
              Cardinality({n \in 1..Len(word_ops) : IsCounted(word_ops[n])})
        /\ SumDict(stats) <= CountOps(word_ops, {"S", "D", "I"})

\* classify_word_errors has returned for a block sequence with a counted
\* block and a non-equal block that no counter counts
C7_Witness ==
    /\ wpc = "done"
    /\ SumDict(stats) >= 1
    /\ SumDict(stats) < CountOps(word_ops, {"S", "D", "I"})
    /\ \E n \in 1..Len(word_ops) :
          /\ word_ops[n].operation = "S"
          /\ Len(word_ops[n].ref_words) = 1 /\ Len(word_ops[n].hyp_words) = 1
          /\ Len(word_ops[n].ref_words[1]) < 3

-----------------------------------------------------------------------------
(* Claims about analyze_pages and save_outputs. *)

BothRead == ref_file.status = "ok" /\ hyp_file.status = "ok"

\* the number of pages both documents have
CommonPages ==
    IF Len(ref_pages) <= Len(hyp_pages) THEN Len(ref_pages) ELSE Len(hyp_pages)

StatKeys == {"char_substitution", "char_deletion", "char_insertion"} \cup WordCategories

\* what comparing reference page k with hypothesis page k adds to a count
PairCount(k, key) ==
    Get(classify_char_errors(levenshtein_align(ref_pages[k], hyp_pages[k]))[1], key)
    + Get(classify_word_errors(word_align(Split(ref_pages[k]), Split(hyp_pages[k]))), key)

\* a count over the first n pairs of pages
RECURSIVE Recount(_, _)
Recount(key, n) ==
    IF n = 0 THEN 0 ELSE Recount(key, n - 1) + PairCount(n, key)

\* the error rows of the pair of pages k, as a set
PairRows(k) ==
    LET wo == word_align(Split(ref_pages[k]), Split(hyp_pages[k]))
    IN  { [page        |-> k,
           ref_context |-> Join(<<Space>>, wo[n].ref_words),
           hyp_context |-> Join(<<Space>>, wo[n].hyp_words),
           error_type  |-> wo[n].operation] :
          n \in {x \in 1..Len(wo) : wo[x].operation # "="} }

\* C8: analyze_pages processes exactly min(len(ref_pages), len(hyp_pages))
\* pages, page k of the reference paired with page k of the hypothesis:
\* the loop never passes the common pages, after n iterations every count
\* is the recount over the first n pairs, what is returned is the recount
\* over the common pages (surplus pages add nothing), and every error row
\* carries a page p with 1 <= p <= min and is a row of the pair of pages p.
C8_OnlyCommonPagesProcessed ==
    (BothRead /\ pc \in {"loop", "returned", "saved"}) =>
        /\ page_idx <= CommonPages
        /\ DOMAIN all_stats \subseteq StatKeys
        /\ \A key \in StatKeys : Get(all_stats, key) = Recount(key, page_idx)
        /\ \A n \in 1..Len(all_errors) :
              /\ 1 <= all_errors[n].page /\ all_errors[n].page <= CommonPages
              /\ all_errors[n] \in PairRows(all_errors[n].page)
        /\ pc # "loop" =>
              /\ page_idx = CommonPages
              /\ returned = << all_stats, all_errors, all_sub_pairs >>
              /\ \A k \in 1..CommonPages :
                    PairRows(k) \subseteq {all_errors[n] : n \in 1..Len(all_errors)}

\* a document has surplus pages, a common page was compared and an error
\* of it is logged
C8_Witness ==
    /\ BothRead /\ pc = "saved"
    /\ Len(ref_pages) # Len(hyp_pages)
    /\ CommonPages >= 1
    /\ returned[2] # <<>>
    /\ DOMAIN returned[1] # {}

\* C9 (as claimed): if either source document cannot be read, analyze_pages
\* returns the empty result set (empty statistics, error log and
\* substitution table) without raising, whichever document it is.
C9_ReadFailureReturnsEmpty ==
    (pc # "start" /\ ~BothRead) =>
        /\ pc \in {"returned", "saved"}
        /\ returned = EmptyResult

\* the number of CharEdits with a tag of tags in the alignments of the
\* first n pairs of pages
RECURSIVE CharEditCount(_, _)
CharEditCount(tags, n) ==
    IF n = 0 THEN 0
    ELSE CharEditCount(tags, n - 1)
         + CountOps(levenshtein_align(ref_pages[n], hyp_pages[n]), tags)

\* C10: after all pages are processed the global char_substitution,
\* char_deletion and char_insertion counts are the numbers of 'S', 'D' and
\* 'I' CharEdits over the alignments of the processed pages, and the
\* total_chars_ref and total_chars_hyp of save_outputs are the recounts of
\* 'S' or 'D' and of 'S' or 'I' CharEdits.
C10_CharTotalsMatchRecount ==
    (BothRead /\ pc = "saved") =>
        /\ Get(saved.error_counts, "char_substitution") = CharEditCount({"S"}, CommonPages)
        /\ Get(saved.error_counts, "char_deletion") = CharEditCount({"D"}, CommonPages)
        /\ Get(saved.error_counts, "char_insertion") = CharEditCount({"I"}, CommonPages)
        /\ saved.total_chars_ref = CharEditCount({"S", "D"}, CommonPages)
        /\ saved.total_chars_hyp = CharEditCount({"S", "I"}, CommonPages)

\* two pages were compared and substitutions of both are in the totals
C10_Witness ==
    /\ BothRead /\ pc = "saved"
    /\ CommonPages >= 2
    /\ CharEditCount({"S"}, 1) >= 1
    /\ saved.total_chars_ref > CharEditCount({"S", "D"}, 1)
    /\ saved.total_chars_hyp > CharEditCount({"S", "I"}, 1)

-----------------------------------------------------------------------------
(* Claims about the backtrace of levenshtein_align. *)

\* the loop is at cell (i, j) and runs its body
AtCell == apc = "loop" /\ (i > 0 \/ j > 0)

\* the body appends the operation e and moves to cell (a, b)
Emits(e, a, b) == ops' = Append(ops, e) /\ i' = a /\ j' = b /\ apc' = "loop"

\* the cost of aligning the first a characters of ref with the first b of hyp
Cost(a, b) == dp[a + 1][b + 1]

\* C11: at every cell (i, j) on its path the backtrace applies exactly this
\* order: if i > 0, j > 0 and ref[i-1] = hyp[j-1] it emits a Match and moves
\* diagonally; else if i > 0, j > 0 and dp[i][j] = dp[i-1][j-1] + 1 a
\* Substitute, diagonally; else if i > 0 and dp[i][j] = dp[i-1][j] + 1 a
\* Delete, up; else an Insert, left; and what is returned is the emitted
\* operations in reversed order.
C11_TieBreakOrder ==
    [][ /\ AtCell =>
            IF i > 0 /\ j > 0 /\ ref[i] = hyp[j]
            THEN Emits([ref_char |-> <<ref[i]>>, hyp_char |-> <<hyp[j]>>,
                        operation |-> "="], i - 1, j - 1)
            ELSE IF i > 0 /\ j > 0 /\ Cost(i, j) = Cost(i - 1, j - 1) + 1
            THEN Emits([ref_char |-> <<ref[i]>>, hyp_char |-> <<hyp[j]>>,
                        operation |-> "S"], i - 1, j - 1)
            ELSE IF i > 0 /\ Cost(i, j) = Cost(i - 1, j) + 1
            THEN Emits([ref_char |-> <<ref[i]>>, hyp_char |-> <<>>,
                        operation |-> "D"], i - 1, j)
            ELSE /\ j > 0
                 /\ Emits([ref_char |-> <<>>, hyp_char |-> <<hyp[j]>>,
                           operation |-> "I"], i, j - 1)
        /\ (apc = "loop" /\ apc' = "done") =>
            /\ Len(ops') = Len(ops)
            /\ \A k \in 1..Len(ops) : ops'[k] = ops[Len(ops) + 1 - k]
      ]_vars

\* "ab" against "ba" has three optimal alignments (S S, D = I and I = D):
\* the one returned is the two substitutions, left to right
C11_Witness ==
    /\ apc = "done"
    /\ ref = <<"a", "b">> /\ hyp = <<"b", "a">>
    /\ ops = << [ref_char |-> <<"a">>, hyp_char |-> <<"b">>, operation |-> "S"],
                [ref_char |-> <<"b">>, hyp_char |-> <<"a">>, operation |-> "S"] >>

-----------------------------------------------------------------------------
(* Claims about the error log. *)

\* the records of the blocks bs of page p (1-based), one for each block that
\* is not equal, in the order of the blocks
RECURSIVE RecordsOf(_, _)
RecordsOf(bs, p) ==
    IF bs = <<>> THEN <<>>
    ELSE (IF Head(bs).operation = "=" THEN <<>>
          ELSE << [page        |-> p,
                   ref_context |-> Join(<<Space>>, Head(bs).ref_words),
                   hyp_context |-> Join(<<Space>>, Head(bs).hyp_words),
                   error_type  |-> Head(bs).operation] >>)
         \o RecordsOf(Tail(bs), p)

\* the records of the first n pairs of pages, in ascending page order
RECURSIVE LogOfPages(_)
LogOfPages(n) ==
    IF n = 0 THEN <<>>
    ELSE LogOfPages(n - 1)
         \o RecordsOf(word_align(Split(ref_pages[n]), Split(hyp_pages[n])), n)

\* C12: the error log analyze_pages returns holds exactly one record for
\* every non-equal WordEdit of every processed page and no other; records
\* are in ascending page order and, within a page, in the order word_align
\* produced the blocks; each carries the 1-based page index and the
\* space-joined ref_words and hyp_words of its block.  The same holds of the
\* log after each iteration of the page loop, and the rows saved are the
\* log returned.
C12_ErrorLogInPageAndBlockOrder ==
    (BothRead /\ pc \in {"loop", "returned", "saved"}) =>
        /\ all_errors = LogOfPages(page_idx)
        /\ pc # "loop" => returned[2] = LogOfPages(CommonPages)
        /\ pc = "saved" => saved.errors_rows = LogOfPages(CommonPages)

\* a returned log with records of two pages
C12_Witness ==
    /\ BothRead /\ pc = "returned"
    /\ Len(returned[2]) >= 2
    /\ returned[2][1].page = 1
    /\ returned[2][Len(returned[2])].page = 2
    /\ returned[2] = LogOfPages(CommonPages)

-----------------------------------------------------------------------------
(* Claims about the termination of the backtrace. *)

\* the loop is at a cell where none of the three guarded branches applies
InsertBranchTaken ==
    /\ AtCell
    /\ ~(i > 0 /\ j > 0 /\ ref[i] = hyp[j])
    /\ ~(i > 0 /\ j > 0 /\ Cost(i, j) = Cost(i - 1, j - 1) + 1)
    /\ ~(i > 0 /\ Cost(i, j) = Cost(i - 1, j) + 1)

\* the indices are never negative, no read is out of range, an operation is
\* appended per iteration and the iterations made and those to come are at
\* most n + m, the Insert branch is taken only with j > 0, and the loop is
\* left with i = 0 and j = 0
BacktraceBounded ==
    /\ i >= 0 /\ j >= 0
    /\ apc # "raised"
    /\ apc \in {"loop", "done"} => Len(ops) + i + j <= Len(ref) + Len(hyp)
    /\ InsertBranchTaken => j > 0
    /\ apc = "done" => i = 0 /\ j = 0

\* C13: for all strings ref (length n) and hyp (length m) the backtrace
\* loop terminates after at most n + m iterations with i = 0 and j = 0, the
\* indices never become negative, and the Insert branch is taken only when
\* j > 0, so that hyp[j-1] is never read out of range.
C13_BacktraceTerminates ==
    []BacktraceBounded /\ ((apc = "loop") ~> (apc = "done"))

\* a backtrace that took the Insert and the Delete branch and returned with
\* i = 0 and j = 0 within n + m iterations
C13_Witness ==
    /\ apc = "done" /\ i = 0 /\ j = 0
    /\ CountOps(ops, {"I"}) >= 1
    /\ CountOps(ops, {"D"}) >= 1
    /\ Len(ops) <= Len(ref) + Len(hyp)

====
